---------------------------- MODULE Spec2Model ----------------------------
(***************************************************************************)
(* Long pricing, solvency model and max-long solver of hyperdrive-math     *)
(* (crates/hyperdrive-math/src/long.rs).                                   *)
(*                                                                         *)
(* get_max_long is modelled as a state machine whose program counter walks *)
(* the function: the boundary shortcut (lines 57-72), the initial guess    *)
(* and its feasibility check (lines 91-101), one action per pass of the    *)
(* Newton loop (lines 102-142) and the final return (line 144).  The       *)
(* pricing and solvency functions are operators computed exactly as the    *)
(* code computes them, in unsigned fixed-point arithmetic that rounds down *)
(* unless the code asks for div_up.                                        *)
(*                                                                         *)
(* The fixed-point type and the YieldSpace curve primitive live outside    *)
(* long.rs.  They are modelled from the specification and the formulas in  *)
(* the doc comments of long.rs, with a reduced scale (ONE) so that every   *)
(* product stays inside TLC's integers, and with the time stretch fixed to *)
(* one half so that every power the code takes is a square root, the       *)
(* identity or a square.                                                   *)
(***************************************************************************)
EXTENDS Integers, Sequences, FiniteSets, TLC

(***************************************************************************)
(* Fixed-point arithmetic (external FixedPoint type).                      *)
(***************************************************************************)

\* fixed!(1e18): the representation of 1.0, at the model's reduced scale.
ONE == 100

\* An unsigned operation whose exact result would be negative, or a division
\* by zero: the arithmetic layer has no value for it.
ERR == -1

\* Option::None of an Option<FixedPoint>.
NONE == -2

Add(a, b) == IF a < 0 \/ b < 0 THEN ERR ELSE a + b

Sub(a, b) == IF a < 0 \/ b < 0 \/ a < b THEN ERR ELSE a - b

\* FixedPoint `*` rounds down.
Mul(a, b) == IF a < 0 \/ b < 0 THEN ERR ELSE (a * b) \div ONE

\* FixedPoint `/` rounds down.
Div(a, b) == IF a < 0 \/ b <= 0 THEN ERR ELSE (a * ONE) \div b

DivUp(a, b) == IF a < 0 \/ b <= 0 THEN ERR ELSE (a * ONE + b - 1) \div b

MulDivDown(a, b, c) == IF a < 0 \/ b < 0 \/ c <= 0 THEN ERR ELSE (a * b) \div c

Min(a, b) == IF a <= b THEN a ELSE b

RECURSIVE SqrtBetween(_, _, _)
\* The largest r in lo..hi with r * r <= n, by bisection.
SqrtBetween(n, lo, hi) ==
    IF lo >= hi THEN lo
    ELSE LET mid == (lo + hi + 1) \div 2
         IN  IF mid * mid <= n THEN SqrtBetween(n, mid, hi)
                               ELSE SqrtBetween(n, lo, mid - 1)

\* Bound of the bisection: every radicand of the model is below its square.
SqrtCeiling == 46000

ISqrt(n) == SqrtBetween(n, 0, SqrtCeiling)

\* FixedPoint::pow for the exponents the model's time stretch produces:
\* 0, 1/2, 1 and 2.
Pow(x, y) ==
    IF x < 0 \/ y < 0 THEN ERR
    ELSE IF y = 0 THEN ONE
    ELSE IF x = 0 THEN 0
    ELSE IF 2 * y = ONE THEN ISqrt(x * ONE)
    ELSE IF y = ONE THEN x
    ELSE IF y = 2 * ONE THEN Mul(x, x)
    ELSE ERR

(***************************************************************************)
(* Pool state accessors and the YieldSpace primitive (external).           *)
(***************************************************************************)

effective_share_reserves(s) ==
    IF s.share_reserves - s.share_adjustment < 0 THEN ERR
    ELSE s.share_reserves - s.share_adjustment

\* k = (c / mu) * (mu * ze)^(1 - t_s) + y^(1 - t_s)
k(s) ==
    Add(Mul(Div(s.share_price, s.initial_share_price),
            Pow(Mul(s.initial_share_price, effective_share_reserves(s)),
                Sub(ONE, s.time_stretch))),
        Pow(s.bond_reserves, Sub(ONE, s.time_stretch)))

\* p = ((mu * ze) / y)^t_s
get_spot_price(s) ==
    Pow(Div(Mul(s.initial_share_price, effective_share_reserves(s)),
            s.bond_reserves),
        s.time_stretch)

\* y_*(x) = y - (k - (c / mu) * (mu * (ze + dz))^(1 - t_s))^(1 / (1 - t_s))
get_out_for_in(s, dz) ==
    LET z == MulDivDown(
                 s.share_price,
                 Pow(Mul(s.initial_share_price,
                         Add(effective_share_reserves(s), dz)),
                     Sub(ONE, s.time_stretch)),
                 s.initial_share_price)
        y == Pow(Sub(k(s), z), DivUp(ONE, Sub(ONE, s.time_stretch)))
    IN  Sub(s.bond_reserves, y)

\* The trade that brings the spot price to 1: the bond reserves become
\* (k / (c / mu + 1))^(1 / (1 - t_s)) and mu * ze equals them.
get_max_buy(s) ==
    LET optimal_y == Pow(Div(k(s),
                             Add(Div(s.share_price, s.initial_share_price),
                                 ONE)),
                         Div(ONE, Sub(ONE, s.time_stretch)))
        optimal_z == Div(optimal_y, s.initial_share_price)
    IN  <<Sub(optimal_z, effective_share_reserves(s)),
          Sub(s.bond_reserves, optimal_y)>>

(***************************************************************************)
(* Long pricing (long.rs).                                                 *)
(***************************************************************************)

get_solvency(s) ==
    Sub(Sub(s.share_reserves, Div(s.long_exposure, s.share_price)),
        s.minimum_share_reserves)

long_curve_fee(s, base_amount) ==
    Mul(Mul(s.curve_fee, Sub(Div(ONE, get_spot_price(s)), ONE)), base_amount)

long_governance_fee(s, base_amount) ==
    Mul(Mul(s.governance_fee, get_spot_price(s)),
        long_curve_fee(s, base_amount))

get_long_amount(s, base_amount) ==
    LET long_amount == get_out_for_in(s, Div(base_amount, s.share_price))
    IN  Sub(long_amount, long_curve_fee(s, base_amount))

(***************************************************************************)
(* Solvency model (long.rs).                                               *)
(***************************************************************************)

\* Netting that takes the magnitude of the exposure, whatever its sign.
netted_magnitude(checkpoint_exposure) ==
    IF checkpoint_exposure < 0 THEN 0 - checkpoint_exposure
    ELSE checkpoint_exposure

\* FixedPoint::from(-checkpoint_exposure.min(int256!(0)))
netted_checkpoint_exposure(checkpoint_exposure) ==
    IF checkpoint_exposure < 0 THEN 0 - checkpoint_exposure ELSE 0

\* The projected solvency as a signed quantity: projected share reserves
\* + netted checkpoint exposure / c - projected exposure / c - z_min, each
\* term rounded as the fixed-point arithmetic rounds it.  defined is FALSE
\* when a term has no unsigned value.
projected_solvency(s, base_amount, bond_amount, checkpoint_exposure) ==
    LET governance_fee == long_governance_fee(s, base_amount)
        share_reserves ==
            Sub(Add(s.share_reserves, Div(base_amount, s.share_price)),
                Div(governance_fee, s.share_price))
        exposure ==
            Add(Sub(Add(s.long_exposure, Mul(2 * ONE, bond_amount)),
                    base_amount),
                governance_fee)
        netted == IF checkpoint_exposure < 0 THEN 0 - checkpoint_exposure
                  ELSE 0
        terms == <<share_reserves, Div(netted, s.share_price),
                   Div(exposure, s.share_price)>>
    IN  IF \E i \in 1 .. 3 : terms[i] = ERR
        THEN [defined |-> FALSE, value |-> 0]
        ELSE [defined |-> TRUE,
              value |-> terms[1] + terms[2] - terms[3]
                        - s.minimum_share_reserves]

\* A solvency check that reports an insolvent projection as a solvency of
\* zero instead of None.
solvency_after_long_clamped(s, base_amount, bond_amount, checkpoint_exposure) ==
    LET projected == projected_solvency(s, base_amount, bond_amount,
                                        checkpoint_exposure)
    IN  IF ~projected.defined THEN ERR
        ELSE IF projected.value >= 0 THEN projected.value
        ELSE 0

\* Some(solvency) when the pool stays solvent after the long, NONE when it
\* does not, ERR when an intermediate amount has no unsigned value.
solvency_after_long(s, base_amount, bond_amount, checkpoint_exposure) ==
    LET governance_fee == long_governance_fee(s, base_amount)
        share_reserves ==
            Sub(Add(s.share_reserves, Div(base_amount, s.share_price)),
                Div(governance_fee, s.share_price))
        exposure ==
            Add(Sub(Add(s.long_exposure, Mul(2 * ONE, bond_amount)),
                    base_amount),
                governance_fee)
        netted == netted_checkpoint_exposure(checkpoint_exposure)
        lhs == Add(share_reserves, Div(netted, s.share_price))
        rhs == Add(Div(exposure, s.share_price), s.minimum_share_reserves)
    IN  IF lhs = ERR \/ rhs = ERR THEN ERR
        ELSE IF lhs >= rhs
             THEN Sub(Sub(lhs, Div(exposure, s.share_price)),
                      s.minimum_share_reserves)
             ELSE NONE

\* Lines 351-360: k - rhs, the quantity long_amount_derivative raises to
\* t_s / (1 - t_s), as a signed quantity.  defined is FALSE when k or rhs
\* has no unsigned value.
long_amount_derivative_root(s, base_amount) ==
    LET share_amount == Div(base_amount, s.share_price)
        inner == Mul(s.initial_share_price,
                     Add(effective_share_reserves(s), share_amount))
        kk == k(s)
        rhs == Mul(Div(s.share_price, s.initial_share_price),
                   Pow(inner, s.time_stretch))
    IN  IF kk = ERR \/ rhs = ERR THEN [defined |-> FALSE, value |-> 0]
        ELSE [defined |-> TRUE, value |-> kk - rhs]

long_amount_derivative(s, base_amount) ==
    LET share_amount == Div(base_amount, s.share_price)
        inner == Mul(s.initial_share_price,
                     Add(effective_share_reserves(s), share_amount))
        derivative0 == Div(ONE, Pow(inner, s.time_stretch))
        kk == k(s)
        rhs == Mul(Div(s.share_price, s.initial_share_price),
                   Pow(inner, s.time_stretch))
        derivative1 ==
            Mul(derivative0,
                Pow(Sub(kk, rhs),
                    DivUp(s.time_stretch, Sub(ONE, s.time_stretch))))
    IN  IF derivative0 = ERR \/ kk = ERR \/ rhs = ERR THEN ERR
        ELSE IF kk < rhs THEN NONE
        ELSE Sub(derivative1,
                 Mul(s.curve_fee, Sub(Div(ONE, get_spot_price(s)), ONE)))

solvency_after_long_derivative(s, base_amount) ==
    LET maybe_derivative == long_amount_derivative(s, base_amount)
    IN  IF maybe_derivative = NONE THEN NONE
        ELSE MulDivDown(
                 Sub(Add(maybe_derivative,
                         Mul(Mul(s.governance_fee, s.curve_fee),
                             Sub(ONE, get_spot_price(s)))),
                     ONE),
                 2 * ONE,
                 s.share_price)

(***************************************************************************)
(* Initial guess of the max long (long.rs).                                *)
(***************************************************************************)

max_long_estimate(s, estimate_price, spot_price, checkpoint_exposure) ==
    LET netted == netted_checkpoint_exposure(checkpoint_exposure)
        estimate0 == Add(get_solvency(s), Div(netted, s.share_price))
        estimate1 == MulDivDown(estimate0, s.share_price, 2 * ONE)
        denominator ==
            Sub(Sub(Add(Div(ONE, estimate_price),
                        Mul(Mul(s.governance_fee, s.curve_fee),
                            Sub(ONE, spot_price))),
                    ONE),
                Mul(s.curve_fee, Sub(Div(ONE, spot_price), ONE)))
    IN  Div(estimate1, denominator)

\* fixed!(0.8e18)
InterpolationCap == (8 * ONE) \div 10

max_long_guess(s, absolute_max_base_amount, checkpoint_exposure) ==
    LET spot_price == get_spot_price(s)
        guess == max_long_estimate(s, spot_price, spot_price,
                                   checkpoint_exposure)
        t == Mul(Pow(Div(guess, absolute_max_base_amount),
                     DivUp(ONE, Sub(ONE, s.time_stretch))),
                 InterpolationCap)
        estimate_price == Add(Mul(spot_price, Sub(ONE, t)), Mul(ONE, t))
    IN  max_long_estimate(s, estimate_price, spot_price, checkpoint_exposure)

(***************************************************************************)
(* get_max_long (long.rs, lines 46-145).                                   *)
(***************************************************************************)

\* maybe_max_iterations.unwrap_or(7)
DefaultMaxIterations == 7

max_iterations(maybe_max_iterations) ==
    IF maybe_max_iterations = NONE THEN DefaultMaxIterations
    ELSE maybe_max_iterations

\* A loop that runs one pass too many: `0..=max_iterations`.
loop_continues_inclusive(iteration, maybe_max_iterations) ==
    iteration <= max_iterations(maybe_max_iterations)

\* Line 102: `for _ in 0..max_iterations` has a pass left after `iteration`
\* passes.
loop_continues(iteration, maybe_max_iterations) ==
    iteration < max_iterations(maybe_max_iterations)

\* A boundary shortcut that forgets the budget.
boundary_return_unclamped(base_amount, budget) == base_amount

\* Line 71: absolute_max_base_amount.min(budget)
boundary_return(base_amount, budget) == Min(base_amount, budget)

\* An initial guess that is used without its feasibility check.
initial_guess_unchecked(maybe_solvency) == "continue"

\* Lines 98-100: an insolvent initial guess is fatal.
initial_guess_check(maybe_solvency) ==
    IF maybe_solvency = NONE THEN "panic" ELSE "continue"

\* Lines 57-62: the long that brings the spot price to 1, in base, and the
\* bonds it buys net of the curve fee.
absolute_max(s) ==
    LET max_buy == get_max_buy(s)
        base_amount == Mul(s.share_price, max_buy[1])
    IN  [base_amount |-> base_amount,
         bond_amount |-> Sub(max_buy[2], long_curve_fee(s, base_amount))]

\* The guards of a pass, tested in the wrong order: the budget first.
newton_guards_budget_first(budget, absolute_max_base_amount, max_base_amount) ==
    IF max_base_amount >= budget THEN "return"
    ELSE IF max_base_amount >= absolute_max_base_amount THEN "panic"
    ELSE "step"

\* Lines 103-115: what a pass of the Newton loop does with the current
\* guess before it steps: panic! at or beyond the absolute max (line 107),
\* return the budget (line 114), or go on to the step.
newton_guards(budget, absolute_max_base_amount, max_base_amount) ==
    IF max_base_amount >= absolute_max_base_amount THEN "panic"
    ELSE IF max_base_amount >= budget THEN "return"
    ELSE "step"

\* A step that stores the candidate before it knows the candidate solvent.
newton_step_keeps_candidate(s, checkpoint_exposure, max_base_amount, solvency) ==
    LET maybe_derivative ==
            solvency_after_long_derivative(s, max_base_amount)
        possible_max_base_amount ==
            Add(max_base_amount, Div(solvency, maybe_derivative))
        maybe_solvency ==
            solvency_after_long(
                s, possible_max_base_amount,
                get_long_amount(s, possible_max_base_amount),
                checkpoint_exposure)
    IN  IF maybe_derivative = ERR
        THEN [kind |-> "arithmetic", why |-> "derivative",
              guess |-> max_base_amount, solvency |-> solvency,
              evaluated |-> 0]
        ELSE IF maybe_derivative = NONE
        THEN [kind |-> "break", why |-> "derivative_undefined",
              guess |-> max_base_amount, solvency |-> solvency,
              evaluated |-> 0]
        ELSE IF possible_max_base_amount = ERR \/ maybe_solvency = ERR
        THEN [kind |-> "arithmetic", why |-> "step",
              guess |-> max_base_amount, solvency |-> solvency,
              evaluated |-> 0]
        ELSE IF maybe_solvency # NONE
        THEN [kind |-> "accept", why |-> "feasible",
              guess |-> possible_max_base_amount,
              solvency |-> maybe_solvency, evaluated |-> 1]
        ELSE [kind |-> "break", why |-> "overshoot",
              guess |-> possible_max_base_amount, solvency |-> solvency,
              evaluated |-> 1]

\* Lines 126-141: the Newton step from the guess max_base_amount with its
\* solvency.  kind is "break" (lines 128 and 140), "accept" of the next
\* guess and its solvency (lines 137-138), or "arithmetic" when an amount
\* of the step has no unsigned value; evaluated counts the calls of
\* solvency_after_long.
newton_step(s, checkpoint_exposure, max_base_amount, solvency) ==
    LET maybe_derivative ==
            solvency_after_long_derivative(s, max_base_amount)
        possible_max_base_amount ==
            Add(max_base_amount, Div(solvency, maybe_derivative))
        maybe_solvency ==
            solvency_after_long(
                s, possible_max_base_amount,
                get_long_amount(s, possible_max_base_amount),
                checkpoint_exposure)
    IN  IF maybe_derivative = ERR
        THEN [kind |-> "arithmetic", why |-> "derivative",
              guess |-> max_base_amount, solvency |-> solvency,
              evaluated |-> 0]
        ELSE IF maybe_derivative = NONE
        THEN [kind |-> "break", why |-> "derivative_undefined",
              guess |-> max_base_amount, solvency |-> solvency,
              evaluated |-> 0]
        ELSE IF possible_max_base_amount = ERR \/ maybe_solvency = ERR
        THEN [kind |-> "arithmetic", why |-> "step",
              guess |-> max_base_amount, solvency |-> solvency,
              evaluated |-> 0]
        ELSE IF maybe_solvency # NONE
        THEN [kind |-> "accept", why |-> "feasible",
              guess |-> possible_max_base_amount,
              solvency |-> maybe_solvency, evaluated |-> 1]
        ELSE [kind |-> "break", why |-> "overshoot",
              guess |-> max_base_amount, solvency |-> solvency,
              evaluated |-> 1]

\* Lines 103-141: one pass of the Newton loop.
newton_pass(s, budget, checkpoint_exposure, absolute_max_base_amount, max_base_amount, solvency) ==
    LET guards == newton_guards(budget, absolute_max_base_amount,
                                max_base_amount)
    IN  IF guards = "panic"
        THEN [kind |-> "panic", why |-> "reached_absolute_max",
              guess |-> max_base_amount, solvency |-> solvency,
              evaluated |-> 0]
        ELSE IF guards = "return"
        THEN [kind |-> "return", why |-> "budget",
              guess |-> max_base_amount, solvency |-> solvency,
              evaluated |-> 0]
        ELSE newton_step(s, checkpoint_exposure, max_base_amount, solvency)

RECURSIVE newton_loop(_, _, _, _, _, _, _, _)
\* Lines 102-144 as a function: the passes from pass `iteration` on, then
\* line 144.
newton_loop(s, budget, checkpoint_exposure, maybe_max_iterations, absolute_max_base_amount, max_base_amount, solvency, iteration) ==
    IF ~loop_continues(iteration, maybe_max_iterations)
    THEN [pc |-> "returned", exit |-> "final", result |-> max_base_amount]
    ELSE LET pass == newton_pass(s, budget, checkpoint_exposure,
                                 absolute_max_base_amount, max_base_amount,
                                 solvency)
         IN  CASE pass.kind = "panic" ->
                    [pc |-> "panicked", exit |-> pass.why, result |-> NONE]
               [] pass.kind = "arithmetic" ->
                    [pc |-> "panicked", exit |-> "arithmetic",
                     result |-> NONE]
               [] pass.kind = "return" ->
                    [pc |-> "returned", exit |-> pass.why, result |-> budget]
               [] pass.kind = "break" ->
                    [pc |-> "returned", exit |-> "final",
                     result |-> max_base_amount]
               [] pass.kind = "accept" ->
                    newton_loop(s, budget, checkpoint_exposure,
                                maybe_max_iterations,
                                absolute_max_base_amount, pass.guess,
                                pass.solvency, iteration + 1)

\* get_max_long as a function of its arguments: how it ends and what it
\* returns.
get_max_long(s, budget, checkpoint_exposure, maybe_max_iterations) ==
    LET boundary == absolute_max(s)
        boundary_solvency ==
            solvency_after_long(s, boundary.base_amount,
                                boundary.bond_amount, checkpoint_exposure)
        guess == max_long_guess(s, boundary.base_amount, checkpoint_exposure)
        maybe_solvency ==
            solvency_after_long(s, guess, get_long_amount(s, guess),
                                checkpoint_exposure)
    IN  IF boundary.base_amount = ERR \/ boundary.bond_amount = ERR
           \/ boundary_solvency = ERR
        THEN [pc |-> "panicked", exit |-> "arithmetic", result |-> NONE]
        ELSE IF boundary_solvency # NONE
        THEN [pc |-> "returned", exit |-> "boundary",
              result |-> boundary_return(boundary.base_amount, budget)]
        ELSE IF guess = ERR \/ maybe_solvency = ERR
        THEN [pc |-> "panicked", exit |-> "arithmetic", result |-> NONE]
        ELSE IF initial_guess_check(maybe_solvency) = "panic"
        THEN [pc |-> "panicked", exit |-> "initial_guess_insolvent",
              result |-> NONE]
        ELSE newton_loop(s, budget, checkpoint_exposure,
                         maybe_max_iterations, boundary.base_amount, guess,
                         maybe_solvency, 0)

(***************************************************************************)
(* Inputs of the model.                                                    *)
(***************************************************************************)

\* Iteration-cap overrides Some(0) .. Some(MaxIterationsOverride), besides
\* None.
MaxIterationsOverride == 3

\* Budgets 0, BudgetStep, .. , MaxBudgetSteps * BudgetStep, besides one that
\* no long of the model's pools reaches.
MaxBudgetSteps == 4

BudgetStep == 10 * ONE

UnlimitedBudget == 10000 * ONE

Budgets == {n * BudgetStep : n \in 0 .. MaxBudgetSteps} \cup {UnlimitedBudget}

CheckpointExposures == {0 - 50 * ONE, 0 - ONE, 0, ONE, 50 * ONE}

\* Base and bond amounts 0, AmountStep, .. , MaxAmountSteps * AmountStep at
\* which the pricing functions are sampled.
MaxAmountSteps == 8

AmountStep == 5 * ONE

SampleAmounts == {n * AmountStep : n \in 0 .. MaxAmountSteps}

Pool(z, y, zeta, exposure, c, mu, z_min, phi_c, phi_g) ==
    [share_reserves |-> z, bond_reserves |-> y, share_adjustment |-> zeta,
     long_exposure |-> exposure, share_price |-> c,
     initial_share_price |-> mu, minimum_share_reserves |-> z_min,
     time_stretch |-> ONE \div 2, curve_fee |-> phi_c,
     governance_fee |-> phi_g]

\* Pool snapshots, in units of 1/ONE: reserves of 50.00 to 100.00 shares,
\* spot prices from 0.54 to 0.94, curve fees of 1% and 5%, governance fees of
\* 10% and 50%.
Pools ==
    { Pool(5000, 15000, 500, 2500, 110, 100, 100, 5, 50),
      Pool(5000, 10000, 500, 4500, 120, 100, 1000, 5, 50),
      Pool(5000, 7500, 500, 4500, 120, 100, 1000, 5, 10),
      Pool(10000, 11000, 0, 0, 100, 100, 100, 1, 10) }

(***************************************************************************)
(* The state machine.                                                      *)
(***************************************************************************)

VARIABLES
    state,                      \* the pool snapshot (&self)
    budget,                     \* argument
    checkpoint_exposure,        \* argument
    maybe_max_iterations,       \* argument: NONE or the override
    pc,                         \* position in get_max_long
    absolute_max_base_amount,   \* line 57
    absolute_max_bond_amount,   \* line 57
    max_base_amount,            \* line 91, NONE before it
    solvency,                   \* line 101, NONE before it
    maybe_derivative,           \* line 126, NONE before it
    iteration,                  \* passes of the loop of line 102 begun
    evaluations,                \* solvency_after_long calls inside the loop
    stopped,                    \* why the loop was left by break, or "no"
    exit,                       \* the return or panic taken, or "none"
    result                      \* the value returned, NONE when none

vars == <<state, budget, checkpoint_exposure, maybe_max_iterations, pc,
          absolute_max_base_amount, absolute_max_bond_amount,
          max_base_amount, solvency, maybe_derivative, iteration,
          evaluations, stopped, exit, result>>

inputs == <<state, budget, checkpoint_exposure, maybe_max_iterations>>

Init ==
    /\ state \in Pools
    /\ budget \in Budgets
    /\ checkpoint_exposure \in CheckpointExposures
    /\ maybe_max_iterations \in {NONE} \cup (0 .. MaxIterationsOverride)
    /\ pc = "boundary_check"
    /\ absolute_max_base_amount = NONE
    /\ absolute_max_bond_amount = NONE
    /\ max_base_amount = NONE
    /\ solvency = NONE
    /\ maybe_derivative = NONE
    /\ iteration = 0
    /\ evaluations = 0
    /\ stopped = "no"
    /\ exit = "none"
    /\ result = NONE

\* panic!: no value is returned.
Panic(why) ==
    /\ pc' = "panicked"
    /\ exit' = why
    /\ result' = NONE

Return(why, value) ==
    /\ pc' = "returned"
    /\ exit' = why
    /\ result' = value

\* Lines 57-72.
BoundaryCheck ==
    /\ pc = "boundary_check"
    /\ LET boundary == absolute_max(state)
           maybe_solvency ==
               solvency_after_long(state, boundary.base_amount,
                                   boundary.bond_amount, checkpoint_exposure)
       IN  IF boundary.base_amount = ERR \/ boundary.bond_amount = ERR
              \/ maybe_solvency = ERR
           THEN /\ Panic("arithmetic")
                /\ UNCHANGED <<absolute_max_base_amount,
                               absolute_max_bond_amount>>
           ELSE /\ absolute_max_base_amount' = boundary.base_amount
                /\ absolute_max_bond_amount' = boundary.bond_amount
                /\ IF maybe_solvency # NONE
                   THEN Return("boundary",
                               boundary_return(boundary.base_amount, budget))
                   ELSE /\ pc' = "initial_guess"
                        /\ UNCHANGED <<exit, result>>
    /\ UNCHANGED <<inputs, max_base_amount, solvency, maybe_derivative,
                   iteration, evaluations, stopped>>

\* Lines 91-101.
InitialGuess ==
    /\ pc = "initial_guess"
    /\ LET guess == max_long_guess(state, absolute_max_base_amount,
                                   checkpoint_exposure)
           maybe_solvency ==
               solvency_after_long(state, guess,
                                   get_long_amount(state, guess),
                                   checkpoint_exposure)
       IN  IF guess = ERR \/ maybe_solvency = ERR
           THEN /\ Panic("arithmetic")
                /\ UNCHANGED <<max_base_amount, solvency>>
           ELSE /\ max_base_amount' = guess
                /\ IF initial_guess_check(maybe_solvency) = "panic"
                   THEN /\ Panic("initial_guess_insolvent")
                        /\ UNCHANGED solvency
                   ELSE /\ solvency' = maybe_solvency
                        /\ pc' = "newton"
                        /\ UNCHANGED <<exit, result>>
    /\ UNCHANGED <<inputs, absolute_max_base_amount,
                   absolute_max_bond_amount, maybe_derivative, iteration,
                   evaluations, stopped>>

\* Lines 102-142: one pass of `for _ in 0..max_iterations`.
NewtonStep ==
    /\ pc = "newton"
    /\ stopped = "no"
    /\ loop_continues(iteration, maybe_max_iterations)
    /\ LET pass == newton_pass(state, budget, checkpoint_exposure,
                               absolute_max_base_amount, max_base_amount,
                               solvency)
       IN  /\ iteration' = iteration + 1
           /\ evaluations' = evaluations + pass.evaluated
           /\ maybe_derivative' =
                  IF pass.kind \in {"panic", "return"} THEN maybe_derivative
                  ELSE solvency_after_long_derivative(state, max_base_amount)
           /\ max_base_amount' = pass.guess
           /\ solvency' = pass.solvency
           /\ CASE pass.kind = "panic" ->
                     Panic(pass.why) /\ UNCHANGED stopped
                [] pass.kind = "arithmetic" ->
                     Panic("arithmetic") /\ UNCHANGED stopped
                [] pass.kind = "return" ->
                     Return(pass.why, budget) /\ UNCHANGED stopped
                [] pass.kind = "break" ->
                     stopped' = pass.why /\ UNCHANGED <<pc, exit, result>>
                [] pass.kind = "accept" ->
                     UNCHANGED <<pc, exit, result, stopped>>
    /\ UNCHANGED <<inputs, absolute_max_base_amount,
                   absolute_max_bond_amount>>

\* Line 144: the loop ended, by break or by exhausting the cap.
ReturnFinal ==
    /\ pc = "newton"
    /\ stopped # "no" \/ ~loop_continues(iteration, maybe_max_iterations)
    /\ Return("final", max_base_amount)
    /\ UNCHANGED <<inputs, absolute_max_base_amount,
                   absolute_max_bond_amount, max_base_amount, solvency,
                   maybe_derivative, iteration, evaluations, stopped>>

Next == BoundaryCheck \/ InitialGuess \/ NewtonStep \/ ReturnFinal

Spec == Init /\ [][Next]_vars

(***************************************************************************)
(* The solvency derivative on its own: the call of line 126 at base        *)
(* amounts up to and beyond the edge of the curve's domain, which the      *)
(* solver's guesses stay away from.                                        *)
(***************************************************************************)

\* Base amounts 0, DerivativeStep, .. , MaxDerivativeSteps * DerivativeStep.
MaxDerivativeSteps == 1300

DerivativeStep == ONE \div 4

DerivativeAmounts == {n * DerivativeStep : n \in 0 .. MaxDerivativeSteps}

DerivativeInit ==
    /\ state \in Pools
    /\ max_base_amount \in DerivativeAmounts
    /\ budget = UnlimitedBudget
    /\ checkpoint_exposure = 0
    /\ maybe_max_iterations = NONE
    /\ pc = "derivative"
    /\ absolute_max_base_amount = NONE
    /\ absolute_max_bond_amount = NONE
    /\ solvency = NONE
    /\ maybe_derivative = NONE
    /\ iteration = 0
    /\ evaluations = 0
    /\ stopped = "no"
    /\ exit = "none"
    /\ result = NONE

\* Line 126: let maybe_derivative =
\*               self.solvency_after_long_derivative(max_base_amount);
DerivativeCall ==
    /\ pc = "derivative"
    /\ maybe_derivative' =
           solvency_after_long_derivative(state, max_base_amount)
    /\ pc' = "derived"
    /\ UNCHANGED <<inputs, absolute_max_base_amount,
                   absolute_max_bond_amount, max_base_amount, solvency,
                   iteration, evaluations, stopped, exit, result>>

DerivativeNext == DerivativeCall

DerivativeSpec == DerivativeInit /\ [][DerivativeNext]_vars

(***************************************************************************)
(* Sanity of the model (not claims of the specification).                  *)
(***************************************************************************)

Terminated == pc \in {"returned", "panicked"}

TypeOK ==
    /\ pc \in {"boundary_check", "initial_guess", "newton", "returned",
               "panicked"}
    /\ exit \in {"none", "boundary", "budget", "final", "arithmetic",
                 "initial_guess_insolvent", "reached_absolute_max"}
    /\ stopped \in {"no", "derivative_undefined", "overshoot"}
    /\ iteration \in Nat /\ evaluations \in Nat
    /\ result \in Nat \cup {NONE}
    /\ max_base_amount \in Nat \cup {NONE}
    /\ solvency \in Nat \cup {NONE}
    /\ maybe_derivative \in Nat \cup {NONE}

\* No pool snapshot of the model leaves the domain of the unsigned
\* arithmetic on any path get_max_long takes.
ArithmeticDefined == exit # "arithmetic"

\* The state machine ends as the function get_max_long does.
MachineAgreesWithFunction ==
    Terminated =>
        [pc |-> pc, exit |-> exit, result |-> result]
            = get_max_long(state, budget, checkpoint_exposure,
                           maybe_max_iterations)

(***************************************************************************)
(* Claims.                                                                 *)
(***************************************************************************)

\* C1: every value get_max_long returns is at most the budget, at each of
\* its three return points (boundary shortcut, in-loop budget return, the
\* return after the loop) and for every iteration cap, 0 included.
C1_ReturnedAtMostBudget == pc = "returned" => result <= budget

\* C2: with budget = 0 get_max_long returns exactly 0, on the boundary
\* shortcut and on the Newton path.
C2_ZeroBudgetReturnsZero == (pc = "returned" /\ budget = 0) => result = 0

C5_EvaluationsWithinCap ==
    /\ [](/\ evaluations <= iteration
          /\ iteration <= max_iterations(maybe_max_iterations)
          /\ evaluations <= max_iterations(maybe_max_iterations))
    /\ [](~Terminated =>
             \/ pc \in {"boundary_check", "initial_guess"}
             \/ pc = "newton" /\ stopped = "no"
                /\ loop_continues(iteration, maybe_max_iterations)
             \/ pc = "newton"
                /\ (stopped # "no"
                    \/ ~loop_continues(iteration, maybe_max_iterations)))
    /\ [][(pc = "newton"
           /\ iteration >= max_iterations(maybe_max_iterations))
              => (Terminated' /\ iteration' = iteration
                  /\ evaluations' = evaluations)]_vars

\* C5 witness: the default cap is exhausted, with one evaluation per pass.
C5_Witness ==
    /\ maybe_max_iterations = NONE
    /\ exit = "final"
    /\ stopped = "no"
    /\ evaluations = DefaultMaxIterations

\* C6: when solvency_after_long at the curve boundary is feasible, the only
\* step get_max_long takes is the return of min(boundary base amount,
\* budget): no initial guess is computed, no Newton pass begins, and it does
\* not panic.
C6_BoundaryShortcut ==
    LET boundary == absolute_max(state)
        boundary_solvency ==
            solvency_after_long(state, boundary.base_amount,
                                boundary.bond_amount, checkpoint_exposure)
    IN  boundary_solvency \in Nat =>
            \/ pc = "boundary_check"
            \/ /\ pc = "returned"
               /\ exit = "boundary"
               /\ result = Min(boundary.base_amount, budget)
               /\ max_base_amount = NONE
               /\ solvency = NONE
               /\ iteration = 0
               /\ evaluations = 0

\* C6 witness: the shortcut was taken and the budget was the smaller amount.
C6_Witness ==
    /\ exit = "boundary"
    /\ budget < absolute_max_base_amount
    /\ result = budget

\* C7: get_max_long ends with a value or with one of the two fatal
\* invariant violations; when the pool is insolvent at the boundary and
\* solvency_after_long at the initial guess is None, it panics before any
\* Newton pass and returns nothing, whatever the budget and the cap.
C7_FatalInitialGuess ==
    LET boundary == absolute_max(state)
        boundary_solvency ==
            solvency_after_long(state, boundary.base_amount,
                                boundary.bond_amount, checkpoint_exposure)
        guess == max_long_guess(state, boundary.base_amount,
                                checkpoint_exposure)
        guess_solvency ==
            solvency_after_long(state, guess, get_long_amount(state, guess),
                                checkpoint_exposure)
        fatal == boundary_solvency = NONE /\ guess_solvency = NONE
    IN  /\ pc = "returned" => result \in Nat
        /\ pc = "panicked" =>
               /\ result = NONE
               /\ exit \in {"initial_guess_insolvent",
                            "reached_absolute_max"}
        /\ (fatal /\ pc \notin {"boundary_check", "initial_guess"}) =>
               /\ pc = "panicked"
               /\ exit = "initial_guess_insolvent"
               /\ result = NONE
               /\ iteration = 0
               /\ evaluations = 0
        /\ exit = "initial_guess_insolvent" => fatal

\* C7 witness: the panic happens with budget 0 and an iteration cap of 0.
C7_Witness ==
    /\ pc = "panicked"
    /\ exit = "initial_guess_insolvent"
    /\ budget = 0
    /\ maybe_max_iterations = 0

\* C8: a Newton pass tests the boundary before the budget: a guess at or
\* beyond the absolute max is fatal even when it also reaches the budget,
\* and the budget is returned only for a guess below the absolute max that
\* reaches the budget.
C8_BoundaryBeforeBudget ==
    [][(pc = "newton" /\ iteration' = iteration + 1) =>
          /\ max_base_amount >= absolute_max_base_amount =>
                 /\ pc' = "panicked"
                 /\ exit' = "reached_absolute_max"
                 /\ result' = NONE
          /\ (max_base_amount < absolute_max_base_amount
              /\ max_base_amount >= budget) =>
                 /\ pc' = "returned"
                 /\ exit' = "budget"
                 /\ result' = budget
          /\ exit' = "budget" =>
                 /\ max_base_amount < absolute_max_base_amount
                 /\ max_base_amount >= budget
                 /\ result' = budget]_vars

\* C8 witness: the fatal abort at a guess that had also reached the budget.
C8_Witness ==
    /\ exit = "reached_absolute_max"
    /\ max_base_amount >= absolute_max_base_amount
    /\ max_base_amount >= budget

\* C9: the stored solvency is always the feasible solvency of the stored
\* guess; a pass that breaks (infeasible step or undefined derivative)
\* leaves guess and solvency unchanged and the loop then ends, so a value
\* returned after the loop is a guess evaluated as feasible.
C9_LastFeasibleGuess ==
    /\ [](max_base_amount # NONE /\ pc # "panicked" =>
             /\ solvency \in Nat
             /\ solvency = solvency_after_long(
                               state, max_base_amount,
                               get_long_amount(state, max_base_amount),
                               checkpoint_exposure))
    /\ [](exit = "final" => result = max_base_amount)
    /\ [][(stopped = "no" /\ stopped' # "no") =>
             /\ max_base_amount' = max_base_amount
             /\ solvency' = solvency
             /\ pc' = "newton"]_vars
    /\ [][stopped # "no" =>
             /\ pc' = "returned"
             /\ exit' = "final"
             /\ result' = max_base_amount]_vars

\* C9 witness: a step overshot after an accepted one, and the last feasible
\* guess was returned.
C9_Witness ==
    /\ exit = "final"
    /\ stopped = "overshoot"
    /\ iteration > 1
    /\ result = max_base_amount

\* C10: the checkpoint exposure acts only through min(exposure, 0): for a
\* non-negative exposure solvency_after_long, the initial guess and the
\* outcome of get_max_long are those of exposure 0, and a negative exposure
\* never turns a feasible solvency_after_long infeasible.
C10_OnlyNegativePartNetted ==
    LET boundary == absolute_max(state)
        points ==
            {<<boundary.base_amount, boundary.bond_amount>>}
            \cup (IF max_base_amount = NONE THEN {}
                  ELSE {<<max_base_amount,
                          get_long_amount(state, max_base_amount)>>})
    IN  /\ \A e \in CheckpointExposures, point \in points :
               LET at_zero == solvency_after_long(state, point[1],
                                                  point[2], 0)
                   at_e == solvency_after_long(state, point[1],
                                               point[2], e)
               IN  /\ e >= 0 => at_e = at_zero
                   /\ (e < 0 /\ at_zero \in Nat) =>
                          (at_e \in Nat /\ at_e >= at_zero)
        /\ \A e \in CheckpointExposures :
               e >= 0 =>
                   max_long_guess(state, boundary.base_amount, e)
                       = max_long_guess(state, boundary.base_amount, 0)
        /\ (Terminated /\ checkpoint_exposure >= 0) =>
               [pc |-> pc, exit |-> exit, result |-> result]
                   = get_max_long(state, budget, 0, maybe_max_iterations)

\* C10 witness: a Newton run under a positive checkpoint exposure, for a
\* pool whose boundary solvency a negative exposure makes feasible.
C10_Witness ==
    LET boundary == absolute_max(state)
    IN  /\ checkpoint_exposure > 0
        /\ exit = "final"
        /\ iteration > 0
        /\ solvency_after_long(state, boundary.base_amount,
                               boundary.bond_amount, 0) = NONE
        /\ solvency_after_long(state, boundary.base_amount,
                               boundary.bond_amount, 0 - 50 * ONE) \in Nat

\* The (base amount, bond amount) pairs at which solvency_after_long is
\* examined in a state: the sampled amounts, the curve boundary, and the
\* guess the solver stores with the bonds it buys.
SolvencyPoints ==
    LET boundary == absolute_max(state)
    IN  (SampleAmounts \X SampleAmounts)
        \cup {<<boundary.base_amount, boundary.bond_amount>>}
        \cup (IF max_base_amount = NONE THEN {}
              ELSE {<<max_base_amount,
                      get_long_amount(state, max_base_amount)>>})

\* C11: wherever the terms of the projected solvency have values,
\* solvency_after_long returns None exactly when the projected solvency is
\* negative and returns the projected solvency itself otherwise: a
\* projection of exactly zero is returned as zero, and a negative one is
\* never returned as a number.  The solvency the solver stores obeys the
\* same rule.
C11_NoneExactlyWhenNegative ==
    /\ \A point \in SolvencyPoints :
           LET projected == projected_solvency(state, point[1], point[2],
                                               checkpoint_exposure)
               returned == solvency_after_long(state, point[1], point[2],
                                               checkpoint_exposure)
           IN  projected.defined =>
                   /\ projected.value < 0 <=> returned = NONE
                   /\ projected.value >= 0 => returned = projected.value
                   /\ returned \in Nat => projected.value = returned
    /\ (max_base_amount # NONE /\ pc # "panicked") =>
           LET projected ==
                   projected_solvency(
                       state, max_base_amount,
                       get_long_amount(state, max_base_amount),
                       checkpoint_exposure)
           IN  projected.defined /\ solvency = projected.value
    /\ stopped = "overshoot" =>
           LET derivative ==
                   solvency_after_long_derivative(state, max_base_amount)
               candidate == Add(max_base_amount, Div(solvency, derivative))
               projected ==
                   projected_solvency(state, candidate,
                                      get_long_amount(state, candidate),
                                      checkpoint_exposure)
           IN  projected.defined /\ projected.value < 0

\* C11 witness: the solver returned a guess whose projected solvency is
\* exactly zero and was stored as zero, on a pool where the projection at
\* the curve boundary is negative and was reported as None.
C11_Witness ==
    LET boundary == absolute_max(state)
        at_boundary ==
            projected_solvency(state, boundary.base_amount,
                               boundary.bond_amount, checkpoint_exposure)
        at_result ==
            projected_solvency(state, max_base_amount,
                               get_long_amount(state, max_base_amount),
                               checkpoint_exposure)
    IN  /\ exit = "final"
        /\ solvency = 0
        /\ at_result.defined /\ at_result.value = 0
        /\ at_boundary.defined /\ at_boundary.value < 0
        /\ solvency_after_long(state, boundary.base_amount,
                               boundary.bond_amount, checkpoint_exposure)
               = NONE

\* C12: long_amount_derivative returns None whenever k - rhs, the quantity
\* under the root, is zero or negative, and solvency_after_long_derivative
\* returns None in exactly the cases long_amount_derivative does.
C12_NoneWhenRootNonPositive ==
    pc = "derived" =>
        LET root == long_amount_derivative_root(state, max_base_amount)
            derivative == long_amount_derivative(state, max_base_amount)
        IN  root.defined =>
                /\ root.value <= 0 => derivative = NONE
                /\ maybe_derivative = NONE <=> derivative = NONE

\* What the code does instead (line 361 tests k < rhs): None exactly when
\* k - rhs is negative, propagated unchanged by
\* solvency_after_long_derivative.
C12_NoneExactlyWhenRootNegative ==
    pc = "derived" =>
        LET root == long_amount_derivative_root(state, max_base_amount)
            derivative == long_amount_derivative(state, max_base_amount)
        IN  root.defined =>
                /\ root.value < 0 <=> derivative = NONE
                /\ maybe_derivative = NONE <=> derivative = NONE

\* C12 witness of the divergence: a sampled base amount at which k - rhs is
\* exactly zero and long_amount_derivative does not return None.
C12_RootZeroSampled ==
    /\ pc = "derived"
    /\ long_amount_derivative_root(state, max_base_amount).defined
    /\ long_amount_derivative_root(state, max_base_amount).value = 0
    /\ long_amount_derivative(state, max_base_amount) # NONE

=============================================================================
